---- MODULE Spec2Model ----
(***************************************************************************)
(* Kessler simulator: orbital integrator, octree spatial index, collision  *)
(* detector and debris generator, as scheduled by the Bevy app in main.rs. *)
(*                                                                         *)
(* Lengths are integers in units of RootHalfSize/2^MaxDepth of the root    *)
(* cube, so that the bounds of every node of depth 0..MaxDepth are         *)
(* integers.  Masses are exact rationals <<num, den>> (kg).  Entities are  *)
(* natural numbers allocated in increasing order; queries iterate in       *)
(* increasing entity order.                                                *)
(***************************************************************************)
EXTENDS Integers, Sequences, FiniteSets, TLC

VARIABLES world, octree, collision_pairs, commands, debris_count,
          next_entity, ran, frame, count_in, count_out, sim_time,
          stress_config, keyboard, tle_cache

vars == <<world, octree, collision_pairs, commands, debris_count,
          next_entity, ran, frame, count_in, count_out, sim_time,
          stress_config, keyboard, tle_cache>>

(***************************************************************************)
(* Bounds of the model                                                     *)
(***************************************************************************)
MaxFrames == 2
MaxEntities == 9
MaxInitObjects == 3
MaxPoints == 5
MaxClears == 1
MaxPhysObjects == 2
MaxBuilds == 7
MaxBuildObjects == 5

(***************************************************************************)
(* Arithmetic helpers                                                      *)
(***************************************************************************)
Abs(x) == IF x < 0 THEN -x ELSE x

Min(a, b) == IF a <= b THEN a ELSE b

Max(a, b) == IF a >= b THEN a ELSE b

Clamp(x, lo, hi) == IF x < lo THEN lo ELSE IF x > hi THEN hi ELSE x

RECURSIVE Pow(_, _)
Pow(b, n) == IF n = 0 THEN 1 ELSE b * Pow(b, n - 1)

RECURSIVE ISqrtBetween(_, _, _)
\* the k in lo..hi-1 with k * k <= n < (k + 1) * (k + 1), by bisection
ISqrtBetween(n, lo, hi) ==
    IF hi - lo <= 1 THEN lo
    ELSE LET mid == (lo + hi) \div 2
         IN  IF mid * mid <= n THEN ISqrtBetween(n, mid, hi) ELSE ISqrtBetween(n, lo, mid)

\* floor(sqrt(n)) for n >= 0
ISqrt(n) == ISqrtBetween(n, 0, Min(n, 46340) + 1)

RECURSIVE Gcd(_, _)
Gcd(a, b) == IF b = 0 THEN a ELSE Gcd(b, a % b)

\* truncation toward zero of a / b, b > 0
TruncDiv(a, b) == IF a >= 0 THEN a \div b ELSE -((-a) \div b)

VAdd(a, b) == <<a[1] + b[1], a[2] + b[2], a[3] + b[3]>>

VSub(a, b) == <<a[1] - b[1], a[2] - b[2], a[3] - b[3]>>

LengthSquared(a) == a[1] * a[1] + a[2] * a[2] + a[3] * a[3]

\* (a - b).length() <= r, compared on the squares; the componentwise test
\* is implied by the second and keeps the squares small
WithinDistance(a, b, r) ==
    /\ r >= 0
    /\ \A i \in 1..3 : Abs(a[i] - b[i]) <= r
    /\ LengthSquared(VSub(a, b)) <= r * r

(***************************************************************************)
(* Octree (collision.rs, OctreeNode).  A node is a record with the fields  *)
(* of the struct; `children` is <<>> for None and the sequence of the 8    *)
(* child nodes for Some.                                                   *)
(***************************************************************************)
RootHalfSize == 64

MaxDepth == 6

MAX_OBJECTS_PER_NODE == 4

\* OctreeNode::new
OctreeNode_new(center, half_size, max_depth, depth) ==
    [center |-> center, half_size |-> half_size, max_depth |-> max_depth,
     depth |-> depth, objects |-> <<>>, children |-> <<>>]

\* SpatialOctree::default
NewOctree == OctreeNode_new(<<0, 0, 0>>, RootHalfSize, MaxDepth, 0)

HasChildren(node) == node.children # <<>>

\* offset sign of child i along axis a, in the order of subdivide()
ChildSign(i, a) == IF ((i - 1) \div Pow(2, a - 1)) % 2 = 1 THEN 1 ELSE -1

contains_point(node, point) ==
    \A a \in 1..3 : /\ point[a] >= node.center[a] - node.half_size
                    /\ point[a] <= node.center[a] + node.half_size

\* a subdivision whose children are given the depth of their parent
subdivide_SameDepth(node) ==
    LET quarter_size == node.half_size \div 2
    IN  [node EXCEPT !.children =
            [i \in 1..8 |->
                OctreeNode_new(<<node.center[1] + ChildSign(i, 1) * quarter_size,
                                 node.center[2] + ChildSign(i, 2) * quarter_size,
                                 node.center[3] + ChildSign(i, 3) * quarter_size>>,
                               quarter_size, node.max_depth, node.depth)]]

subdivide(node) ==
    LET quarter_size == node.half_size \div 2
        new_depth == node.depth + 1
    IN  [node EXCEPT !.children =
            [i \in 1..8 |->
                OctreeNode_new(<<node.center[1] + ChildSign(i, 1) * quarter_size,
                                 node.center[2] + ChildSign(i, 2) * quarter_size,
                                 node.center[3] + ChildSign(i, 3) * quarter_size>>,
                               quarter_size, node.max_depth, new_depth)]]

RECURSIVE insert(_, _, _)
RECURSIVE InsertChildren(_, _, _, _)
\* OctreeNode::insert: [ok, node], node the node after the call
insert(node, entity, position) ==
    IF ~contains_point(node, position) THEN [ok |-> FALSE, node |-> node]
    ELSE IF /\ Len(node.objects) >= MAX_OBJECTS_PER_NODE
            /\ node.depth < node.max_depth
            /\ ~HasChildren(node)
         THEN InsertChildren(subdivide(node), 1, entity, position)
         ELSE InsertChildren(node, 1, entity, position)

\* the loop over the children (none without children), then the push into
\* the node itself
InsertChildren(node, i, entity, position) ==
    IF ~HasChildren(node) \/ i > 8
    THEN [ok |-> TRUE, node |-> [node EXCEPT !.objects = Append(@, entity)]]
    ELSE IF contains_point(node.children[i], position)
         THEN [ok |-> TRUE,
               node |-> [node EXCEPT !.children[i] = insert(@, entity, position).node]]
         ELSE InsertChildren(node, i + 1, entity, position)

\* a test of the distance to the centre of the cube
sphere_intersects_cube_CenterOnly(node, sphere_center, sphere_radius) ==
    WithinDistance(node.center, sphere_center, sphere_radius)

\* square of the distance from x to its clamp into [lo, hi]
ClampGapSquared(x, lo, hi) ==
    IF x < lo THEN (lo - x) * (lo - x) ELSE IF x > hi THEN (x - hi) * (x - hi) ELSE 0

\* closest is sphere_center clamped into the cube, per axis
sphere_intersects_cube(node, sphere_center, sphere_radius) ==
    /\ sphere_radius >= 0
    /\ ClampGapSquared(sphere_center[1], node.center[1] - node.half_size,
                       node.center[1] + node.half_size)
         + ClampGapSquared(sphere_center[2], node.center[2] - node.half_size,
                           node.center[2] + node.half_size)
         + ClampGapSquared(sphere_center[3], node.center[3] - node.half_size,
                           node.center[3] + node.half_size)
         <= sphere_radius * sphere_radius

RECURSIVE query_sphere(_, _, _)
RECURSIVE QueryChildren(_, _, _, _)
\* the entities pushed to `results`, in order
query_sphere(node, center, radius) ==
    IF ~sphere_intersects_cube(node, center, radius) THEN <<>>
    ELSE IF HasChildren(node)
         THEN node.objects \o QueryChildren(node, 1, center, radius)
         ELSE node.objects

QueryChildren(node, i, center, radius) ==
    IF i > 8 THEN <<>>
    ELSE query_sphere(node.children[i], center, radius)
         \o QueryChildren(node, i + 1, center, radius)

RECURSIVE clear(_)
\* OctreeNode::clear: the objects go, the children stay
clear(node) ==
    [node EXCEPT !.objects = <<>>,
                 !.children = IF HasChildren(node)
                              THEN [i \in 1..8 |-> clear(node.children[i])]
                              ELSE <<>>]

(***************************************************************************)
(* Real quantities that need more than an integer                          *)
(* [n, d, e] stands for (n / d) * 10^e, d > 0.                             *)
(***************************************************************************)
Real(n, d, e) == LET g == Gcd(Abs(n), d) IN [n |-> n \div g, d |-> d \div g, e |-> e]

\* sum of two quantities of the same decimal exponent
RAdd(a, b) == Real(a.n * b.d + b.n * a.d, a.d * b.d, a.e)

RPositive(a) == a.n > 0

RECURSIVE DivPow10(_, _)
\* floor(n / 10^k), one digit at a time
DivPow10(n, k) == IF k = 0 \/ n = 0 THEN n ELSE DivPow10(n \div 10, k - 1)

\* floor(sqrt(x / 10^k)) for x >= 0
FloorSqrtDiv(x, k) ==
    IF x.e >= k THEN ISqrt((x.n * Pow(10, x.e - k)) \div x.d)
    ELSE ISqrt(DivPow10(x.n \div x.d, k - x.e))

(***************************************************************************)
(* Components                                                              *)
(***************************************************************************)
\* PhysicsObject::satellite / PhysicsObject::debris: the collision radius
SatelliteCollisionRadius == 1

DebrisCollisionRadius == 1

\* Debris::new
Debris_new(parent_collision, generation) ==
    [parent_collision |-> parent_collision, generation |-> generation]

\* Debris::from_collision
from_collision(collision_id) == Debris_new(collision_id, 1)

\* Debris::from_debris
from_debris(parent, collision_id) == Debris_new(collision_id, parent.generation + 1)

\* an entity without a Debris component
NoDebris == [parent_collision |-> 0, generation |-> 0]

\* the components of one simulated object: OrbitalState, PhysicsObject and
\* the optional Debris
Object(position, velocity, mass, collision_radius, is_debris, debris) ==
    [position |-> position, velocity |-> velocity, mass |-> mass,
     collision_radius |-> collision_radius, is_debris |-> is_debris,
     debris |-> debris]

\* filler of the `obj` field of a despawn command
NoObject == Object(<<0, 0, 0>>, <<0, 0, 0>>, Real(0, 1, 0), 0, FALSE, NoDebris)

\* generation of an object for lineage: an original counts as 0
GenerationOf(o) == IF o.is_debris THEN o.debris.generation ELSE 0

(***************************************************************************)
(* ECS world                                                               *)
(***************************************************************************)
Entities(w) == DOMAIN w

RECURSIVE SortedSeq(_)
\* the entities of a set in increasing order: the order of Query::iter
SortedSeq(S) ==
    IF S = {} THEN <<>>
    ELSE LET m == CHOOSE x \in S : \A y \in S : x <= y
         IN  <<m>> \o SortedSeq(S \ {m})

\* Query::get(entity) succeeds
IsLive(w, entity) == entity \in DOMAIN w

(***************************************************************************)
(* The simulation clock (SimulationTime) and time_control_system           *)
(***************************************************************************)
\* SimulationTime::default: running, at real-time speed
SimulationTime_default == [paused |-> FALSE, speed |-> 1]

\* SimulationTime::pause, resume and set_speed
pause(clock) == [clock EXCEPT !.paused = TRUE]

resume(clock) == [clock EXCEPT !.paused = FALSE]

set_speed(clock, speed) == [clock EXCEPT !.speed = speed]

\* the keys time_control_system reads
Keys == {"Space", "Key1", "Key2", "Key3", "Key4"}

\* the body of time_control_system for the set of keys just pressed
TimeControl(clock, pressed) ==
    LET c0 == IF "Space" \in pressed
              THEN (IF clock.paused THEN resume(clock) ELSE pause(clock))
              ELSE clock
        c1 == IF "Key1" \in pressed THEN set_speed(c0, 1) ELSE c0
        c2 == IF "Key2" \in pressed THEN set_speed(c1, 60) ELSE c1
        c3 == IF "Key3" \in pressed THEN set_speed(c2, 3600) ELSE c2
    IN  IF "Key4" \in pressed THEN set_speed(c3, 86400) ELSE c3

(***************************************************************************)
(* TLE data (data.rs)                                                      *)
(***************************************************************************)
\* TleDataCache::default
TleDataCache_default == [records |-> <<>>, last_updated |-> 0]

(***************************************************************************)
(* physics_system (physics.rs)                                             *)
(***************************************************************************)
\* constants.gravitational_parameter, in model length units, with the
\* km/m conversions folded in
GM == 16

\* sim_time.timestep
TimeStep == 1

\* a loop body that guards only the acceleration: at r == 0 the position still
\* advances by the velocity
Integrate_DriftsAtOrigin(o) ==
    LET r2 == LengthSquared(o.position)
        r == ISqrt(r2)
        new_vel == IF r2 > 0
                   THEN [a \in 1..3 |->
                           o.velocity[a] + TruncDiv(-(GM * o.position[a]) * TimeStep, r2 * r)]
                   ELSE o.velocity
        new_pos == [a \in 1..3 |-> o.position[a] + new_vel[a] * TimeStep]
    IN  [o EXCEPT !.velocity = new_vel, !.position = new_pos]

\* an Euler step that moves the object by the velocity it had before the step
new_pos_FromOldVelocity(o, new_vel) ==
    [a \in 1..3 |-> o.position[a] + o.velocity[a] * TimeStep]

\* new_pos_x, new_pos_y, new_pos_z: pos + new_vel * dt
new_pos(o, new_vel) ==
    [a \in 1..3 |-> o.position[a] + new_vel[a] * TimeStep]

\* the body of the loop for one OrbitalState
Integrate(o) ==
    LET r2 == LengthSquared(o.position)
        r == ISqrt(r2)
    IN  IF r2 > 0
        THEN LET new_vel == [a \in 1..3 |->
                     o.velocity[a] + TruncDiv(-(GM * o.position[a]) * TimeStep, r2 * r)]
             IN  [o EXCEPT !.velocity = new_vel, !.position = new_pos(o, new_vel)]
        ELSE o

\* an Integrator that does not look at the clock
RunPhysics_IgnoresPause(clock, w) == [e \in DOMAIN w |-> Integrate(w[e])]

\* a loop body in which the acceleration of an object also sums the pull of
\* every other object of the query, as an n-body force would
IntegrateEntity_NBody(w, entity) ==
    LET o == Integrate(w[entity])
        pull == [a \in 1..3 |->
                   Cardinality({f \in DOMAIN w : w[f].position[a] > w[entity].position[a]})
                 - Cardinality({f \in DOMAIN w : w[f].position[a] < w[entity].position[a]})]
        vel == [a \in 1..3 |-> o.velocity[a] + pull[a] * TimeStep]
    IN  [w EXCEPT ![entity] =
            [o EXCEPT !.velocity = vel,
                      !.position = [a \in 1..3 |-> o.position[a] + pull[a] * TimeStep * TimeStep]]]

\* one iteration of `for mut orbital_state in orbital_query.iter_mut()`: the
\* body reads and writes the OrbitalState of that one entity
IntegrateEntity(w, entity) == [w EXCEPT ![entity] = Integrate(w[entity])]

\* the loop, taking the entities in the given order
RECURSIVE physics_loop(_, _)
physics_loop(w, order) ==
    IF order = <<>> THEN w
    ELSE physics_loop(IntegrateEntity(w, Head(order)), Tail(order))

\* the body of physics_system: nothing while the clock is paused, else the
\* loop over orbital_query
RunPhysics(clock, w) ==
    IF clock.paused THEN w ELSE physics_loop(w, SortedSeq(DOMAIN w))

(***************************************************************************)
(* update_spatial_octree_system (collision.rs)                             *)
(***************************************************************************)
RECURSIVE InsertAll(_, _, _)
InsertAll(t, w, es) ==
    IF es = <<>> THEN t
    ELSE InsertAll(insert(t, Head(es), w[Head(es)].position).node, w, Tail(es))

\* a rebuild that forgets to clear the tree first
Rebuild_NoClear(t, w) == InsertAll(t, w, SortedSeq(Entities(w)))

Rebuild(t, w) == InsertAll(clear(t), w, SortedSeq(Entities(w)))

(***************************************************************************)
(* collision_detection_system (collision.rs)                               *)
(***************************************************************************)
\* a pair key that keeps the order of discovery
CanonicalPair_Unordered(entity, other_entity) == <<entity, other_entity>>

\* the canonical pair used for checked_pairs
CanonicalPair(entity, other_entity) ==
    IF entity < other_entity THEN <<entity, other_entity>> ELSE <<other_entity, entity>>

\* a test against twice the combined radius
Collides_DoubledRadius(w, entity, other_entity) ==
    WithinDistance(w[entity].position, w[other_entity].position,
                   2 * (w[entity].collision_radius + w[other_entity].collision_radius))

\* the exact test of one candidate
Collides(w, entity, other_entity) ==
    WithinDistance(w[entity].position, w[other_entity].position,
                   w[entity].collision_radius + w[other_entity].collision_radius)

SearchRadius(o) == o.collision_radius * 2

RECURSIVE DetectNearby(_, _, _, _)
\* a loop that records a candidate it cannot resolve
DetectNearby_RecordsStale(w, entity, nearby, st) ==
    IF nearby = <<>> THEN st
    ELSE LET other_entity == Head(nearby)
             pair == CanonicalPair(entity, other_entity)
         IN  IF entity = other_entity \/ pair \in st.checked
             THEN DetectNearby(w, entity, Tail(nearby), st)
             ELSE LET checked == st.checked \cup {pair}
                      pairs == IF ~IsLive(w, other_entity)
                                  \/ Collides(w, entity, other_entity)
                               THEN Append(st.pairs, <<entity, other_entity>>)
                               ELSE st.pairs
                  IN  DetectNearby(w, entity, Tail(nearby),
                                   [checked |-> checked, pairs |-> pairs])

\* the loop over nearby_objects for one entity; st = [checked, pairs]
DetectNearby(w, entity, nearby, st) ==
    IF nearby = <<>> THEN st
    ELSE LET other_entity == Head(nearby)
             pair == CanonicalPair(entity, other_entity)
         IN  IF entity = other_entity \/ pair \in st.checked
             THEN DetectNearby(w, entity, Tail(nearby), st)
             ELSE LET checked == st.checked \cup {pair}
                      pairs == IF IsLive(w, other_entity) /\ Collides(w, entity, other_entity)
                               THEN Append(st.pairs, <<entity, other_entity>>)
                               ELSE st.pairs
                  IN  DetectNearby(w, entity, Tail(nearby),
                                   [checked |-> checked, pairs |-> pairs])

RECURSIVE DetectAll(_, _, _, _)
\* the loop over orbital_query
DetectAll(w, t, es, st) ==
    IF es = <<>> THEN st
    ELSE LET entity == Head(es)
             nearby == query_sphere(t, w[entity].position, SearchRadius(w[entity]))
         IN  DetectAll(w, t, Tail(es), DetectNearby(w, entity, nearby, st))

Detect(w, t) ==
    DetectAll(w, t, SortedSeq(Entities(w)), [checked |-> {}, pairs |-> <<>>]).pairs

(***************************************************************************)
(* debris_generation_system (collision.rs)                                 *)
(***************************************************************************)
\* a u32 as two 16-bit limbs, value hi * 2^16 + lo
U32(hi, lo) == [hi |-> hi, lo |-> lo]

U32_MAX == U32(65535, 65535)

\* the u32 of an integer 0 <= n < 2^31
U32FromInt(n) == U32(n \div 65536, n % 65536)

RECURSIVE SatMulPow10(_, _)
\* v * 10^j, u32::MAX as soon as the product leaves the u32 range
SatMulPow10(v, j) ==
    IF j = 0 THEN v
    ELSE LET lo10 == v.lo * 10
             hi10 == v.hi * 10 + lo10 \div 65536
         IN  IF hi10 >= 65536 THEN U32_MAX
             ELSE SatMulPow10(U32(hi10, lo10 % 65536), j - 1)

RECURSIVE SqrtDiv(_, _, _)
\* sqrt((n / d) * 10^p) for n >= 0 as [s, j], the value s * 10^j: the floor
\* of the root when the radicand fits (p <= 6), else the root of the
\* radicand without its last factors of 100, times their roots
SqrtDiv(n, d, p) ==
    IF p <= 6
    THEN [s |-> IF p >= 0 THEN ISqrt((n * Pow(10, p)) \div d)
                ELSE ISqrt(DivPow10(n \div d, -p)),
          j |-> 0]
    ELSE LET r == SqrtDiv(n, d, p - 2) IN [s |-> r.s, j |-> r.j + 1]

\* `(x / 10^k).sqrt() as u32`: the cast saturates, and NaN (the root of a
\* negative operand) casts to 0
SqrtAsU32(x, k) ==
    IF x.n < 0 THEN U32(0, 0)
    ELSE LET r == SqrtDiv(x.n, x.d, x.e - k) IN SatMulPow10(U32FromInt(r.s), r.j)

\* `(x / 10^k).sqrt().min(10.0) as u32`: f32::min returns the other operand
\* for NaN
SqrtMin10AsU32(x, k) ==
    IF x.n < 0 THEN U32(0, 10)
    ELSE LET r == SqrtDiv(x.n, x.d, x.e - k)
         IN  IF r.j > 0 \/ r.s >= 10 THEN U32(0, 10) ELSE U32(0, r.s)

\* a + b on u32 as the release profile computes it, modulo 2^32 (the debug
\* profile panics where this wraps)
wrapping_add(a, b) ==
    LET lo == a.lo + b.lo
    IN  U32((a.hi + b.hi + lo \div 65536) % 65536, lo % 65536)

\* u32::clamp to bounds below 2^16, as an integer
u32_clamp(v, lo, hi) == IF v.hi > 0 THEN hi ELSE Clamp(v.lo, lo, hi)

\* the count without its final clamp (limited to what an integer can hold)
calculate_debris_count_Unclamped(collision_energy, total_mass) ==
    LET sum == wrapping_add(SqrtAsU32(total_mass, 3), SqrtMin10AsU32(collision_energy, 12))
    IN  IF sum.hi > 0 THEN 65536 ELSE sum.lo

\* calculate_debris_count
calculate_debris_count(collision_energy, total_mass) ==
    LET base_debris == SqrtAsU32(total_mass, 3)
        energy_multiplier == SqrtMin10AsU32(collision_energy, 12)
    IN  u32_clamp(wrapping_add(base_debris, energy_multiplier), 2, 50)

\* the directions and fractions the random source can produce
KickDirs == << <<1, 0, 0>>, <<0, 1, 0>>, <<0, 0, 1>>, <<-1, 0, 0>>, <<0, -1, 0>>, <<0, 0, -1>> >>

\* the seeds of the streams the random source is drawn from
Seeds == {1, 2}

\* the k-th draw of thread_rng in one run of the generator, for a seed
Draw(seed, k) == [dir |-> KickDirs[((seed + k) % 6) + 1], tenths |-> 1 + ((seed + k) % 4)]

\* generate_debris_velocity
generate_debris_velocity(vel1, vel2, relative_speed, draw) ==
    LET avg_velocity == [a \in 1..3 |-> TruncDiv(vel1[a] + vel2[a], 2)]
        debris_kick_speed == TruncDiv(relative_speed * draw.tenths, 10)
    IN  [a \in 1..3 |-> avg_velocity[a] + draw.dir[a] * debris_kick_speed]

\* the fragment mass computed on whole kilograms
DebrisMass_Truncating(total_mass, debris_pieces) ==
    Real((total_mass.n \div total_mass.d) \div (debris_pieces * 10), 1, total_mass.e)

\* (orbital1.mass + orbital2.mass) / debris_pieces * 0.1
DebrisMass(total_mass, debris_pieces) ==
    Real(total_mass.n, total_mass.d * debris_pieces * 10, total_mass.e)

Midpoint(p1, p2) == [a \in 1..3 |-> TruncDiv(p1[a] + p2[a], 2)]

\* commands.spawn(bundle) and commands.entity(e).despawn()
SpawnCommand(obj) == [op |-> "spawn", obj |-> obj, entity |-> 0]

DespawnCommand(entity) == [op |-> "despawn", obj |-> NoObject, entity |-> entity]

RECURSIVE SpawnDebris(_, _, _, _, _)
\* the loop `for i in 0..debris_pieces` of one pair; g = [cmds, count, draws]
SpawnDebris(o1, o2, debris_pieces, i, g) ==
    IF i >= debris_pieces THEN g
    ELSE LET count == g.count + 1
             relative_velocity == VSub(o2.velocity, o1.velocity)
             debris_velocity == generate_debris_velocity(o1.velocity, o2.velocity,
                                    ISqrt(LengthSquared(relative_velocity)),
                                    Draw(g.seed, g.draws))
             debris_mass == DebrisMass(RAdd(o1.mass, o2.mass), debris_pieces)
             obj == Object(Midpoint(o1.position, o2.position), debris_velocity,
                           debris_mass, DebrisCollisionRadius, TRUE,
                           from_collision(count))
         IN  SpawnDebris(o1, o2, debris_pieces, i + 1,
                 [g EXCEPT !.cmds = Append(@, SpawnCommand(obj)),
                           !.count = count, !.draws = @ + 1])

\* collision_energy and debris_pieces of one pair
CollisionEnergy(o1, o2) ==
    LET total == RAdd(o1.mass, o2.mass)
    IN  Real(total.n * LengthSquared(VSub(o2.velocity, o1.velocity)), total.d * 2, total.e)

DebrisPieces(o1, o2) == calculate_debris_count(CollisionEnergy(o1, o2), RAdd(o1.mass, o2.mass))

\* the pair is processed: both Query::get succeed
PairProcessed(w, pair) == IsLive(w, pair[1]) /\ IsLive(w, pair[2])

\* a processed pair that forgets to remove its second participant
ProcessPair_KeepsSecond(w, entity1, entity2, g) ==
    LET g1 == SpawnDebris(w[entity1], w[entity2],
                          DebrisPieces(w[entity1], w[entity2]), 0, g)
    IN  [g1 EXCEPT !.cmds = Append(@, DespawnCommand(entity1))]

\* the body of the loop for a pair whose participants are both live
ProcessPair(w, entity1, entity2, g) ==
    LET g1 == SpawnDebris(w[entity1], w[entity2],
                          DebrisPieces(w[entity1], w[entity2]), 0, g)
    IN  [g1 EXCEPT !.cmds = @ \o << DespawnCommand(entity1), DespawnCommand(entity2) >>]

RECURSIVE Generate(_, _, _)
\* the loop over collision_pairs.pairs
Generate(w, pairs, g) ==
    IF pairs = <<>> THEN g
    ELSE IF PairProcessed(w, Head(pairs))
         THEN Generate(w, Tail(pairs), ProcessPair(w, Head(pairs)[1], Head(pairs)[2], g))
         ELSE Generate(w, Tail(pairs), g)

(***************************************************************************)
(* Commands: queued by the systems, applied when the schedule has run      *)
(***************************************************************************)
RECURSIVE ApplyCommands(_, _, _)
\* [w, next]: spawn allocates a new entity, despawn of a missing entity
\* changes nothing
ApplyCommands(w, next, cmds) ==
    IF cmds = <<>> THEN [w |-> w, next |-> next]
    ELSE LET c == Head(cmds)
         IN  IF c.op = "spawn"
             THEN ApplyCommands([e \in DOMAIN w \cup {next} |->
                                    IF e = next THEN c.obj ELSE w[e]],
                                next + 1, Tail(cmds))
             ELSE ApplyCommands([e \in DOMAIN w \ {c.entity} |-> w[e]], next, Tail(cmds))

(***************************************************************************)
(* Loading the satellites (data.rs, sgp4_wrapper.rs).  Altitudes,          *)
(* inclinations and radii are in tenths of their unit, speeds in m/s.      *)
(***************************************************************************)
\* the TleFetchTask marker entity spawned by initialize_tle_data_system
TleFetchTask == [tle_fetch_task |-> TRUE]

\* Query<Entity, With<TleFetchTask>>
FetchTasks(w) == {e \in DOMAIN w : "tle_fetch_task" \in DOMAIN w[e]}

\* Query<&Satellite>
Satellites(w) == {e \in DOMAIN w : "norad_id" \in DOMAIN w[e]}

\* the fields of a TleRecord that the loader distinguishes
TleRecord(name, norad_id, inclination) ==
    [name |-> name, norad_id |-> norad_id, inclination |-> inclination]

\* tle_to_state_vectors: the placeholder returns Err for every record
tle_to_state_vectors(tle) ==
    [ok |-> FALSE, err |-> "SGP4 conversion not yet implemented"]

\* create_satellite_from_tle: `?` passes the Err of the conversion on
create_satellite_from_tle(tle_record) ==
    LET r == tle_to_state_vectors(tle_record)
    IN  IF r.ok
        THEN [ok |-> TRUE, tle |-> tle_record,
              orbital_state |-> [position |-> r.position, velocity |-> r.velocity]]
        ELSE [ok |-> FALSE, err |-> r.err]

\* the bundle of spawn_satellite_entity
SatelliteEntity(tle_record, orbital_state) ==
    [name |-> tle_record.name, norad_id |-> tle_record.norad_id,
     position |-> orbital_state.position, velocity |-> orbital_state.velocity,
     mass |-> Real(1000, 1, 0), collision_radius |-> SatelliteCollisionRadius,
     is_debris |-> FALSE, debris |-> NoDebris]

\* spawn_satellites_from_records: one spawn command for every record whose
\* conversion succeeds, the others are counted as failed
spawn_satellites_from_records(records) ==
    LET results == [i \in 1..Len(records) |-> create_satellite_from_tle(records[i])]
        spawned == SelectSeq(results, LAMBDA r : r.ok)
    IN  [i \in 1..Len(spawned) |->
            SpawnCommand(SatelliteEntity(spawned[i].tle, spawned[i].orbital_state))]

\* create_test_satellite: the dummy record and the circular orbit at the
\* given altitude
create_test_satellite(name, norad_id, altitude, inclination) ==
    LET orbital_radius == 63710 + altitude
        orbital_velocity == ISqrt((398600442 \div orbital_radius) * 10000)
    IN  [tle |-> TleRecord(name, norad_id, inclination),
         orbital_state |-> [position |-> <<orbital_radius, 0, 0>>,
                            velocity |-> <<0, orbital_velocity, 0>>]]

\* the arguments of the create_test_satellite calls of
\* create_extended_test_dataset: name, NORAD id, altitude, inclination
TestSatelliteArgs ==
    << <<"ISS (ZARYA)", 25544, 4080, 516>>,
       <<"HUBBLE SPACE TELESCOPE", 20580, 5470, 285>>,
       <<"TERRA", 25994, 7050, 982>>,
       <<"AQUA", 27424, 7050, 982>>,
       <<"NOAA-18", 28654, 8540, 989>>,
       <<"METOP-A", 29499, 8170, 987>>,
       <<"WORLDVIEW-1", 32060, 4960, 972>>,
       <<"KEPLER", 36411, 6210, 890>>,
       <<"SENTINEL-1A", 39634, 6930, 982>>,
       <<"LANDSAT-8", 39084, 7053, 982>>,
       <<"NOAA-19", 33591, 8700, 987>>,
       <<"METOP-B", 38771, 8170, 987>>,
       <<"SENTINEL-1B", 41456, 6930, 982>>,
       <<"SENTINEL-2A", 40697, 7860, 986>>,
       <<"SENTINEL-2B", 42063, 7860, 986>>,
       <<"SENTINEL-3A", 41335, 8145, 987>>,
       <<"SENTINEL-3B", 43437, 8145, 987>>,
       <<"LANDSAT-7", 25682, 7050, 982>>,
       <<"SPOT-6", 38755, 6940, 982>>,
       <<"SPOT-7", 40053, 6940, 982>>,
       <<"WORLDVIEW-2", 36284, 7700, 972>>,
       <<"WORLDVIEW-3", 40115, 6170, 979>>,
       <<"PLEIADES-1A", 38012, 6940, 982>>,
       <<"PLEIADES-1B", 39019, 6940, 982>>,
       <<"COSMO-SKYMED 1", 31598, 6196, 979>>,
       <<"COSMO-SKYMED 2", 32598, 6196, 979>>,
       <<"RADARSAT-2", 32382, 7980, 986>>,
       <<"TERRASAR-X", 31698, 5148, 974>>,
       <<"TANDEM-X", 36605, 5148, 974>>,
       <<"ICESAT-2", 43613, 4960, 920>>,
       <<"GRACE-FO 1", 43476, 4900, 890>>,
       <<"GRACE-FO 2", 43477, 4900, 890>>,
       <<"SWOT", 52811, 8906, 776>>,
       <<"ENVISAT", 27386, 7900, 985>>,
       <<"CRYOSAT-2", 36508, 7170, 920>>,
       <<"GOCE", 36227, 2550, 967>>,
       <<"SMOS", 36036, 7580, 984>>,
       <<"PROBA-2", 36037, 7280, 983>>,
       <<"SWARM-A", 39451, 4600, 874>>,
       <<"SWARM-B", 39452, 4600, 874>>,
       <<"SWARM-C", 39453, 5100, 880>>,
       <<"AURA", 28376, 7050, 982>>,
       <<"CALIPSO", 29108, 7050, 982>>,
       <<"CLOUDSAT", 29107, 7050, 982>>,
       <<"OCO-2", 40059, 7050, 982>>,
       <<"SMAP", 40376, 6850, 981>>,
       <<"JPSS-1 (NOAA-20)", 43013, 8240, 987>>,
       <<"SUOMI NPP", 37849, 8240, 987>>,
       <<"DMSP F18", 35951, 8500, 988>>,
       <<"DMSP F19", 43435, 8500, 988>>,
       <<"GPS BIIR-2 (PRN 13)", 24876, 202000, 550>>,
       <<"GPS BIIR-10 (PRN 12)", 32260, 202000, 550>>,
       <<"GPS BIIF-1 (PRN 25)", 38833, 202000, 550>>,
       <<"GPS BIIF-2 (PRN 01)", 39166, 202000, 550>>,
       <<"GPS BIIF-3 (PRN 06)", 39533, 202000, 550>>,
       <<"GPS BIIF-4 (PRN 03)", 39741, 202000, 550>>,
       <<"GPS BIIF-5 (PRN 09)", 40105, 202000, 550>>,
       <<"GPS BIIF-6 (PRN 26)", 40294, 202000, 550>>,
       <<"GPS BIIF-7 (PRN 08)", 40534, 202000, 550>>,
       <<"GPS BIIF-8 (PRN 10)", 40730, 202000, 550>>,
       <<"GPS BIIF-9 (PRN 32)", 41019, 202000, 550>>,
       <<"GPS BIIF-10 (PRN 02)", 41328, 202000, 550>>,
       <<"GALILEO-FOC FM14", 41549, 232220, 560>>,
       <<"GALILEO-FOC FM15", 41550, 232220, 560>>,
       <<"GALILEO-FOC FM11", 41859, 232220, 560>>,
       <<"GALILEO-FOC FM12", 41860, 232220, 560>>,
       <<"GALILEO-FOC FM13", 41861, 232220, 560>>,
       <<"GALILEO-FOC FM16", 41862, 232220, 560>>,
       <<"GLONASS-M 758", 36111, 191300, 648>>,
       <<"GLONASS-M 759", 36112, 191300, 648>>,
       <<"GLONASS-M 760", 36113, 191300, 648>>,
       <<"GLONASS-K1 701", 39155, 191300, 648>>,
       <<"GLONASS-K1 702", 41330, 191300, 648>>,
       <<"BEIDOU-3 M15", 43581, 215280, 550>>,
       <<"BEIDOU-3 M16", 43582, 215280, 550>>,
       <<"BEIDOU-3 M13", 43107, 215280, 550>>,
       <<"BEIDOU-3 M14", 43108, 215280, 550>>,
       <<"IRNSS-1A", 39199, 357860, 290>>,
       <<"IRNSS-1B", 40269, 357860, 290>>,
       <<"QZSS-1", 37158, 357860, 430>>,
       <<"JASON-2", 33105, 13360, 660>>,
       <<"JASON-3", 41240, 13360, 660>>,
       <<"GOES-16", 41866, 357860, 1>>,
       <<"GOES-17", 43226, 357860, 1>>,
       <<"GOES-18", 51850, 357860, 1>>,
       <<"METEOSAT-11", 38552, 357860, 1>>,
       <<"METEOSAT-10", 38771, 357860, 1>>,
       <<"HIMAWARI-8", 40267, 357860, 1>>,
       <<"HIMAWARI-9", 40268, 357860, 1>>,
       <<"INTELSAT 29E", 41308, 357860, 1>>,
       <<"INTELSAT 33E", 42432, 357860, 1>>,
       <<"INTELSAT 36", 41748, 357860, 1>>,
       <<"ASTRA 2E", 38087, 357860, 1>>,
       <<"ASTRA 2F", 39020, 357860, 1>>,
       <<"ASTRA 2G", 39199, 357860, 1>>,
       <<"EUTELSAT 7C", 41855, 357860, 1>>,
       <<"EUTELSAT 10A", 40364, 357860, 1>>,
       <<"TURKSAT 4A", 39522, 357860, 1>>,
       <<"TURKSAT 4B", 40945, 357860, 1>>,
       <<"SES-14", 43055, 357860, 1>> >>

\* create_extended_test_dataset: the records of the test satellites are
\* pushed to the cache, their orbital states dropped, and the satellites
\* spawned from the records of the cache
create_extended_test_dataset(cache) ==
    LET test_satellites ==
            [i \in 1..Len(TestSatelliteArgs) |->
                create_test_satellite(TestSatelliteArgs[i][1], TestSatelliteArgs[i][2],
                                      TestSatelliteArgs[i][3], TestSatelliteArgs[i][4])]
        records == cache.records \o [i \in 1..Len(test_satellites) |-> test_satellites[i].tle]
    IN  [cache |-> [cache EXCEPT !.records = records],
         cmds |-> spawn_satellites_from_records(records)]

\* records.into_iter().take(100)
LiveLimit == 100

Take(seq, n) == [i \in 1..Min(n, Len(seq)) |-> seq[i]]

\* the body of the loop of process_tle_fetch_system for one fetch task and
\* one result of try_fetch_live_tle_data
ProcessFetch(cache, task, fetched) ==
    IF fetched.ok
    THEN LET limited_records == Take(fetched.records, LiveLimit)
         IN  [cache |-> [records |-> limited_records, last_updated |-> 1],
              cmds |-> <<DespawnCommand(task)>> \o spawn_satellites_from_records(limited_records)]
    ELSE LET r == create_extended_test_dataset(cache)
         IN  [cache |-> r.cache, cmds |-> <<DespawnCommand(task)>> \o r.cmds]

(***************************************************************************)
(* The stress test (stress_test.rs): StressTestConfig and the keys its     *)
(* systems read.  The numbers of objects are small stand-ins for those of  *)
(* the program (targets 500, 1000, 2000, 5000; 50 spawned per frame): they *)
(* keep the order of the targets and a spawn rate below every target.  An  *)
(* odd target makes the last spawn smaller than the rate, which the        *)
(* program gets once collisions have removed stress-test objects.          *)
(***************************************************************************)
Target500 == 3

Target1000 == 4

Target2000 == 5

Target5000 == 6

SpawnRate == 2

\* StressTestConfig::default
StressTestConfig_default ==
    [target_objects |-> Target1000, current_objects |-> 0,
     spawn_rate |-> SpawnRate, enabled |-> FALSE]

\* the keys stress_test_spawn_system and stress_test_cleanup_system read
StressKeys == {"KeyT", "Digit5", "Digit6", "Digit7", "Digit8", "KeyC"}

\* the StressTestObject marker component of an entity
IsStressTestObject(o) == "stress_test" \in DOMAIN o

\* Query<&StressTestObject>
StressTestObjects(w) == {e \in DOMAIN w : IsStressTestObject(w[e])}

\* the bundle spawn_random_orbital_object spawns: OrbitalState,
\* PhysicsObject::debris(mass) and the StressTestObject marker, without a
\* Debris component
StressObject(position, velocity, kg) ==
    [position |-> position, velocity |-> velocity, mass |-> Real(kg, 1, 0),
     collision_radius |-> DebrisCollisionRadius, is_debris |-> FALSE,
     debris |-> NoDebris, stress_test |-> TRUE]

\* the draws of spawn_random_orbital_object: a position on a circle around
\* the origin (altitude at least 200 km above the Earth radius), the
\* velocity across it, a mass in 1.0..10000.0
RandomOrbitalObjects ==
    { StressObject(<<16, 0, 0>>, <<0, 1, 0>>, 1),
      StressObject(<<0, 0, -32>>, <<1, 0, 0>>, 9999) }

\* the key handling at the head of stress_test_spawn_system: T toggles,
\* the digits set the target, a later `if` overriding an earlier one
StressKeysHandled(config, pressed) ==
    LET c0 == IF "KeyT" \in pressed THEN [config EXCEPT !.enabled = ~config.enabled]
              ELSE config
        c1 == IF "Digit5" \in pressed THEN [c0 EXCEPT !.target_objects = Target500] ELSE c0
        c2 == IF "Digit6" \in pressed THEN [c1 EXCEPT !.target_objects = Target1000] ELSE c1
        c3 == IF "Digit7" \in pressed THEN [c2 EXCEPT !.target_objects = Target2000] ELSE c2
    IN  IF "Digit8" \in pressed THEN [c3 EXCEPT !.target_objects = Target5000] ELSE c3

\* a spawn count that ignores the objects already live
to_spawn_IgnoresCurrent(config) == config.spawn_rate

\* to_spawn, for a config whose current_objects has been counted
to_spawn(config) ==
    IF config.current_objects < config.target_objects
    THEN Min(config.target_objects - config.current_objects, config.spawn_rate)
    ELSE 0

\* stress_test_spawn_system: the new config and the spawn commands it
\* queues, `objs` being the random objects drawn by the spawn loop
StressSpawn(config, pressed, w, objs) ==
    LET c == StressKeysHandled(config, pressed)
    IN  IF ~c.enabled THEN [config |-> c, cmds |-> <<>>]
        ELSE LET counted == [c EXCEPT !.current_objects = Cardinality(StressTestObjects(w))]
             IN  [config |-> counted,
                  cmds |-> [i \in 1..to_spawn(counted) |-> SpawnCommand(objs[i])]]

\* stress_test_cleanup_system
StressCleanup(config, pressed, w) ==
    IF "KeyC" \in pressed
    THEN [config |-> [config EXCEPT !.current_objects = 0, !.enabled = FALSE],
          cmds |-> [i \in 1..Cardinality(StressTestObjects(w)) |->
                      DespawnCommand(SortedSeq(StressTestObjects(w))[i])]]
    ELSE [config |-> config, cmds |-> <<>>]

(***************************************************************************)
(* Initial populations                                                     *)
(***************************************************************************)
Satellite(position, velocity, kg, collision_radius) ==
    Object(position, velocity, Real(kg, 1, 0), collision_radius, FALSE, NoDebris)

\* the objects an initial dataset is drawn from: two close objects near
\* the origin, one that narrowly misses them, and one outside the root cube
InitObjects ==
    { Satellite(<<4, 0, 0>>, <<0, 2, 0>>, 5, 1),
      Satellite(<<4, 2, 0>>, <<0, -2, 0>>, 9000, 2),
      Satellite(<<6, 0, 0>>, <<0, 1, 0>>, 1000, 0),
      Satellite(<<65, 0, 0>>, <<0, 0, 0>>, 1000, 1) }

InitPopulations ==
    UNION { [1..n -> InitObjects] : n \in 2..MaxInitObjects }

NoCountInput == [energy |-> Real(0, 1, 0), mass |-> Real(0, 1, 0)]

Init ==
    /\ world \in InitPopulations
    /\ octree = NewOctree
    /\ collision_pairs = <<>>
    /\ commands = <<>>
    /\ debris_count = 0
    /\ next_entity = Cardinality(DOMAIN world) + 1
    /\ ran = <<>>
    /\ frame = 0
    /\ count_in = NoCountInput
    /\ count_out = 0
    /\ sim_time = SimulationTime_default
    /\ stress_config = StressTestConfig_default
    /\ tle_cache = TleDataCache_default
    /\ keyboard = {}

(***************************************************************************)
(* The Update schedule of main.rs: every system runs once per frame, in an *)
(* order the schedule does not constrain; the deferred commands are        *)
(* applied when all systems have run.                                      *)
(***************************************************************************)
Systems == {"physics", "octree", "detect", "debris"}

HasRun(sys) == \E i \in 1..Len(ran) : ran[i] = sys

CanRun(sys) == frame < MaxFrames /\ ~HasRun(sys)

physics_system ==
    /\ CanRun("physics")
    /\ world' = RunPhysics(sim_time, world)
    /\ ran' = Append(ran, "physics")
    /\ UNCHANGED <<octree, collision_pairs, commands, debris_count, next_entity,
                   frame, count_in, count_out, sim_time,
                   stress_config, keyboard, tle_cache>>

update_spatial_octree_system ==
    /\ CanRun("octree")
    /\ octree' = Rebuild(octree, world)
    /\ ran' = Append(ran, "octree")
    /\ UNCHANGED <<world, collision_pairs, commands, debris_count, next_entity,
                   frame, count_in, count_out, sim_time,
                   stress_config, keyboard, tle_cache>>

collision_detection_system ==
    /\ CanRun("detect")
    /\ collision_pairs' = Detect(world, octree)
    /\ ran' = Append(ran, "detect")
    /\ UNCHANGED <<world, octree, commands, debris_count, next_entity,
                   frame, count_in, count_out, sim_time,
                   stress_config, keyboard, tle_cache>>

SpawnCount(cmds) == Cardinality({i \in 1..Len(cmds) : cmds[i].op = "spawn"})

debris_generation_system ==
    /\ CanRun("debris")
    /\ \E seed \in Seeds :
         LET g == Generate(world, collision_pairs,
                           [cmds |-> commands, count |-> debris_count,
                            draws |-> 0, seed |-> seed])
         IN  /\ next_entity + SpawnCount(g.cmds) <= MaxEntities + 1
             /\ commands' = g.cmds
             /\ debris_count' = g.count
    /\ ran' = Append(ran, "debris")
    /\ UNCHANGED <<world, octree, collision_pairs, next_entity,
                   frame, count_in, count_out, sim_time,
                   stress_config, keyboard, tle_cache>>

\* end of the schedule: the command queues are applied
EndOfSchedule(systems) ==
    /\ \A sys \in systems : HasRun(sys)
    /\ LET r == ApplyCommands(world, next_entity, commands)
       IN  world' = r.w /\ next_entity' = r.next
    /\ commands' = <<>>
    /\ ran' = <<>>
    /\ frame' = frame + 1
    /\ UNCHANGED <<octree, collision_pairs, debris_count, count_in, count_out, sim_time,
                   stress_config, tle_cache>>

EndFrame == EndOfSchedule(Systems) /\ UNCHANGED keyboard

Next ==
    \/ physics_system
    \/ update_spatial_octree_system
    \/ collision_detection_system
    \/ debris_generation_system
    \/ EndFrame

Spec == Init /\ [][Next]_vars

(***************************************************************************)
(* The octree alone: points are inserted one at a time into a tree that    *)
(* earlier builds may have subdivided                                      *)
(***************************************************************************)
OctPoints == { <<1, 1, 1>>, <<0, 0, 0>>, <<33, 1, 1>>, <<65, 0, 0>> }

InitOctree ==
    /\ world = << >>
    /\ octree = NewOctree
    /\ collision_pairs = <<>>
    /\ commands = <<>>
    /\ debris_count = 0
    /\ next_entity = 1
    /\ ran = <<>>
    /\ frame = 0
    /\ count_in = NoCountInput
    /\ count_out = 0
    /\ sim_time = SimulationTime_default
    /\ stress_config = StressTestConfig_default
    /\ tle_cache = TleDataCache_default
    /\ keyboard = {}

\* spawn an object at p and insert it into the tree
OctInsert ==
    /\ next_entity <= MaxPoints
    /\ \E p \in OctPoints :
         /\ world' = [e \in DOMAIN world \cup {next_entity} |->
                         IF e = next_entity THEN Satellite(p, <<0, 0, 0>>, 1000, 1)
                         ELSE world[e]]
         /\ octree' = insert(octree, next_entity, p).node
    /\ next_entity' = next_entity + 1
    /\ UNCHANGED <<collision_pairs, commands, debris_count, ran, frame, count_in, count_out,
                   sim_time,
                   stress_config, keyboard, tle_cache>>

\* a new build starts: the tree is cleared and the population replaced
OctClear ==
    /\ frame < MaxClears
    /\ world # << >>
    /\ octree' = clear(octree)
    /\ world' = << >>
    /\ next_entity' = 1
    /\ frame' = frame + 1
    /\ UNCHANGED <<collision_pairs, commands, debris_count, ran, count_in, count_out, sim_time,
                   stress_config, keyboard, tle_cache>>

NextOctree == OctInsert \/ OctClear

SpecOctree == InitOctree /\ [][NextOctree]_vars

(***************************************************************************)
(* The index over many frames: every step is one whole run of              *)
(* update_spatial_octree_system on the population of that frame; the tree  *)
(* is the one the previous frames left behind                              *)
(***************************************************************************)
\* a corner shared by the eight children of the root, a point inside one
\* node of every depth, and a point outside the root cube
BuildPoints == { <<0, 0, 0>>, <<33, 1, 1>>, <<65, 0, 0>> }

\* a single object, a node filled to the threshold, and one object more
BuildSizes == {1, MaxBuildObjects - 1, MaxBuildObjects}

\* the populations of a frame: one object at q followed by k - 1 objects at
\* p (all at p when q = p)
BuildPopulations ==
    { [i \in 1..k |-> Satellite(IF i = 1 THEN q ELSE p, <<0, 0, 0>>, 1000, 1)] :
        p \in BuildPoints, q \in BuildPoints, k \in BuildSizes }

InitBuild ==
    /\ world = << >>
    /\ octree = NewOctree
    /\ collision_pairs = <<>>
    /\ commands = <<>>
    /\ debris_count = 0
    /\ next_entity = 1
    /\ ran = <<>>
    /\ frame = 0
    /\ count_in = NoCountInput
    /\ count_out = 0
    /\ sim_time = SimulationTime_default
    /\ stress_config = StressTestConfig_default
    /\ tle_cache = TleDataCache_default
    /\ keyboard = {}

\* a frame: the population is replaced and the index rebuilt from it
OctBuild ==
    /\ frame < MaxBuilds
    /\ \E population \in BuildPopulations :
         /\ world' = population
         /\ octree' = Rebuild(octree, population)
         /\ next_entity' = Len(population) + 1
    /\ frame' = frame + 1
    /\ UNCHANGED <<collision_pairs, commands, debris_count, ran, count_in, count_out, sim_time,
                   stress_config, keyboard, tle_cache>>

NextBuild == OctBuild

SpecBuild == InitBuild /\ [][NextBuild]_vars

(***************************************************************************)
(* calculate_debris_count alone                                            *)
(***************************************************************************)
MassInputs == { Real(n, d, e) : n \in {1, 2, 9, 25, 26}, d \in {1, 3}, e \in {0, 3, 4, 6, 23} }

EnergyInputs == { Real(n, 1, e) : n \in {0, 1, 4, 99, 100, 101}, e \in {0, 12, 14} }

InitCount ==
    /\ world = << >>
    /\ octree = NewOctree
    /\ collision_pairs = <<>>
    /\ commands = <<>>
    /\ debris_count = 0
    /\ next_entity = 1
    /\ ran = <<>>
    /\ frame = 0
    /\ count_in \in [energy : EnergyInputs, mass : MassInputs]
    /\ count_out = 0
    /\ sim_time = SimulationTime_default
    /\ stress_config = StressTestConfig_default
    /\ tle_cache = TleDataCache_default
    /\ keyboard = {}

ApplyCount ==
    /\ count_out = 0
    /\ count_out' = calculate_debris_count(count_in.energy, count_in.mass)
    /\ UNCHANGED <<world, octree, collision_pairs, commands, debris_count,
                   next_entity, ran, frame, count_in, sim_time,
                   stress_config, keyboard, tle_cache>>

NextCount == ApplyCount

SpecCount == InitCount /\ [][NextCount]_vars

(***************************************************************************)
(* The clock and the Integrator alone: time_control_system and             *)
(* physics_system run once per frame, in either order                      *)
(***************************************************************************)
\* objects for the Integrator: one in orbit, one that falls into the origin
\* in one step, one off the x axis, and one that starts at the origin
PhysObjects ==
    { Satellite(<<4, 0, 0>>, <<0, 2, 0>>, 5, 1),
      Satellite(<<4, 0, 0>>, <<-3, 0, 0>>, 1000, 1),
      Satellite(<<0, -2, 0>>, <<1, 0, 0>>, 1000, 1),
      Satellite(<<0, 0, 0>>, <<1, 0, 0>>, 1000, 1) }

PhysPopulations ==
    UNION { [1..n -> PhysObjects] : n \in 1..MaxPhysObjects }

InitPhysics ==
    /\ world \in PhysPopulations
    /\ octree = NewOctree
    /\ collision_pairs = <<>>
    /\ commands = <<>>
    /\ debris_count = 0
    /\ next_entity = Cardinality(DOMAIN world) + 1
    /\ ran = <<>>
    /\ frame = 0
    /\ count_in = NoCountInput
    /\ count_out = 0
    /\ sim_time = SimulationTime_default
    /\ stress_config = StressTestConfig_default
    /\ tle_cache = TleDataCache_default
    /\ keyboard = {}

time_control_system ==
    /\ CanRun("time")
    /\ \E pressed \in SUBSET Keys : sim_time' = TimeControl(sim_time, pressed)
    /\ ran' = Append(ran, "time")
    /\ UNCHANGED <<world, octree, collision_pairs, commands, debris_count, next_entity,
                   frame, count_in, count_out,
                   stress_config, keyboard, tle_cache>>

EndPhysicsFrame == EndOfSchedule({"time", "physics"}) /\ UNCHANGED keyboard

NextPhysics ==
    \/ time_control_system
    \/ physics_system
    \/ EndPhysicsFrame

SpecPhysics == InitPhysics /\ [][NextPhysics]_vars

(***************************************************************************)
(* The stress test alone: stress_test_spawn_system and                     *)
(* stress_test_cleanup_system run once per frame, in either order, on the  *)
(* keys pressed in that frame; their commands are applied at the end of    *)
(* the schedule                                                            *)
(***************************************************************************)
MaxStressFrames == 3

MaxKeysPressed == 2

\* the sets of keys that can be just-pressed in one frame
KeyboardInputs == {pressed \in SUBSET StressKeys : Cardinality(pressed) <= MaxKeysPressed}

CanRunStress(sys) == frame < MaxStressFrames /\ ~HasRun(sys)

InitStress ==
    /\ world = <<Satellite(<<4, 0, 0>>, <<0, 2, 0>>, 1000, SatelliteCollisionRadius)>>
    /\ octree = NewOctree
    /\ collision_pairs = <<>>
    /\ commands = <<>>
    /\ debris_count = 0
    /\ next_entity = 2
    /\ ran = <<>>
    /\ frame = 0
    /\ count_in = NoCountInput
    /\ count_out = 0
    /\ sim_time = SimulationTime_default
    /\ stress_config = StressTestConfig_default
    /\ tle_cache = TleDataCache_default
    /\ keyboard \in KeyboardInputs

stress_test_spawn_system ==
    /\ CanRunStress("stress_spawn")
    /\ \E objs \in [1..SpawnRate -> RandomOrbitalObjects] :
         LET r == StressSpawn(stress_config, keyboard, world, objs)
         IN  /\ stress_config' = r.config
             /\ commands' = commands \o r.cmds
    /\ ran' = Append(ran, "stress_spawn")
    /\ UNCHANGED <<world, octree, collision_pairs, debris_count, next_entity,
                   frame, count_in, count_out, sim_time, keyboard, tle_cache>>

stress_test_cleanup_system ==
    /\ CanRunStress("stress_cleanup")
    /\ LET r == StressCleanup(stress_config, keyboard, world)
       IN  /\ stress_config' = r.config
           /\ commands' = commands \o r.cmds
    /\ ran' = Append(ran, "stress_cleanup")
    /\ UNCHANGED <<world, octree, collision_pairs, debris_count, next_entity,
                   frame, count_in, count_out, sim_time, keyboard, tle_cache>>

\* end of the schedule; the next frame has its own just-pressed keys
EndStressFrame ==
    /\ EndOfSchedule({"stress_spawn", "stress_cleanup"})
    /\ keyboard' \in KeyboardInputs

NextStress ==
    \/ stress_test_spawn_system
    \/ stress_test_cleanup_system
    \/ EndStressFrame

SpecStress == InitStress /\ [][NextStress]_vars

(***************************************************************************)
(* Loading alone: initialize_tle_data_system in the Startup schedule       *)
(* (frame 0), then process_tle_fetch_system once per frame of Update       *)
(***************************************************************************)
MaxDataFrames == 3

MaxLiveRecords == 3

\* records a live fetch can return
LiveTles ==
    { TleRecord("ISS (ZARYA)", 25544, 516),
      TleRecord("STARLINK-1007", 44713, 530),
      TleRecord("GPS BIIR-2 (PRN 13)", 24876, 550) }

\* the results of try_fetch_live_tle_data: a short list of records, a list
\* longer than the limit, an error of the request, the 10-second timeout
FetchResults ==
    { [ok |-> TRUE, records |-> recs] :
        recs \in UNION { [1..n -> LiveTles] : n \in 0..MaxLiveRecords } }
    \cup { [ok |-> TRUE,
            records |-> [i \in 1..(LiveLimit + 1) |-> TleRecord("STARLINK-1007", 44713 + i, 530)]] }
    \cup { [ok |-> FALSE, err |-> "error sending request"],
            [ok |-> FALSE, err |-> "Timeout fetching TLE data"] }

InitData ==
    /\ world = <<>>
    /\ octree = NewOctree
    /\ collision_pairs = <<>>
    /\ commands = <<>>
    /\ debris_count = 0
    /\ next_entity = 1
    /\ ran = <<>>
    /\ frame = 0
    /\ count_in = NoCountInput
    /\ count_out = 0
    /\ sim_time = SimulationTime_default
    /\ stress_config = StressTestConfig_default
    /\ tle_cache = TleDataCache_default
    /\ keyboard = {}

initialize_tle_data_system ==
    /\ frame = 0
    /\ ~HasRun("initialize")
    /\ commands' = IF tle_cache.records = <<>>
                   THEN Append(commands, SpawnCommand(TleFetchTask))
                   ELSE commands
    /\ ran' = Append(ran, "initialize")
    /\ UNCHANGED <<world, octree, collision_pairs, debris_count, next_entity,
                   frame, count_in, count_out, sim_time, stress_config, keyboard,
                   tle_cache>>

EndStartup == EndOfSchedule({"initialize"}) /\ frame = 0 /\ UNCHANGED keyboard

RECURSIVE ProcessFetchTasks(_, _, _)
\* `for entity in query.iter()`, each task with its own fetch
ProcessFetchTasks(cache, tasks, fetched) ==
    IF tasks = <<>> THEN [cache |-> cache, cmds |-> <<>>]
    ELSE LET r == ProcessFetch(cache, Head(tasks), fetched[Len(fetched) - Len(tasks) + 1])
             rest == ProcessFetchTasks(r.cache, Tail(tasks), fetched)
         IN  [cache |-> rest.cache, cmds |-> r.cmds \o rest.cmds]

process_tle_fetch_system ==
    /\ frame >= 1
    /\ frame < MaxDataFrames
    /\ ~HasRun("fetch")
    /\ LET tasks == SortedSeq(FetchTasks(world))
       IN  \E fetched \in [1..Len(tasks) -> FetchResults] :
              LET r == ProcessFetchTasks(tle_cache, tasks, fetched)
              IN  /\ tle_cache' = r.cache
                  /\ commands' = commands \o r.cmds
    /\ ran' = Append(ran, "fetch")
    /\ UNCHANGED <<world, octree, collision_pairs, debris_count, next_entity,
                   frame, count_in, count_out, sim_time, stress_config, keyboard>>

EndDataFrame == EndOfSchedule({"fetch"}) /\ frame >= 1 /\ UNCHANGED keyboard

NextData ==
    \/ initialize_tle_data_system
    \/ EndStartup
    \/ process_tle_fetch_system
    \/ EndDataFrame

SpecData == InitData /\ [][NextData]_vars

(***************************************************************************)
(* Properties                                                              *)
(***************************************************************************)
\* position of a system in this frame's run order, 0 if it has not run
Position(sys) == IF HasRun(sys) THEN CHOOSE i \in 1..Len(ran) : ran[i] = sys ELSE 0

Range(seq) == {seq[i] : i \in 1..Len(seq)}

SpawnIndexes(cmds) == {i \in 1..Len(cmds) : cmds[i].op = "spawn"}

DespawnIndexes(cmds) == {i \in 1..Len(cmds) : cmds[i].op = "despawn"}

\* the Euclidean distance of two live objects is at most the sum of their
\* collision radii
Overlap(a, b) ==
    LengthSquared(VSub(world[a].position, world[b].position))
        <= (world[a].collision_radius + world[b].collision_radius)
            * (world[a].collision_radius + world[b].collision_radius)

\* the pair {a, b} is in the recorded pair collection, in either order
Recorded(a, b) == <<a, b>> \in Range(collision_pairs) \/ <<b, a>> \in Range(collision_pairs)

\* the Detector has run in this frame on an index rebuilt in this frame from
\* the positions the objects still have
DetectorRanOnFreshIndex ==
    /\ HasRun("detect")
    /\ HasRun("octree")
    /\ Position("octree") < Position("detect")
    /\ Position("physics") < Position("octree")

\* C1: in every step the stages run in the order Integrator, Index rebuild,
\* Detector, Generator: a stage has run only if the preceding stage has
C1_StagesRunInOrder ==
    /\ HasRun("octree") => HasRun("physics")
    /\ HasRun("detect") => HasRun("octree")
    /\ HasRun("debris") => HasRun("detect")

\* C2: after the Detector has run on a freshly rebuilt index, every two
\* distinct live objects within the sum of their radii (radii not both
\* zero) form a recorded pair, wherever they lie
C2_EveryOverlapRecorded ==
    DetectorRanOnFreshIndex =>
        \A a, b \in Entities(world) :
            ( /\ a # b
              /\ world[a].collision_radius + world[b].collision_radius > 0
              /\ Overlap(a, b) ) => Recorded(a, b)

\* C3: the recorded pair collection has no self-pair and never holds the
\* same unordered pair twice, in the same or in the opposite order
C3_PairsDeduplicated ==
    /\ \A i \in 1..Len(collision_pairs) : collision_pairs[i][1] # collision_pairs[i][2]
    /\ \A i, j \in 1..Len(collision_pairs) :
          i # j => {collision_pairs[i][1], collision_pairs[i][2]}
                     # {collision_pairs[j][1], collision_pairs[j][2]}

\* two pairs recorded among objects that each find the other in the index
C3_Witness ==
    /\ HasRun("detect")
    /\ Len(collision_pairs) >= 2

\* the positions are those the Detector read: no Integrator run after it
PositionsAsDetected == HasRun("detect") /\ Position("physics") < Position("detect")

\* C4: every recorded pair passes the exact test, distance at most the sum
\* of the two collision radii, on the positions the Detector read
C4_RecordedPairsPassExactTest ==
    PositionsAsDetected =>
        \A i \in 1..Len(collision_pairs) :
            /\ IsLive(world, collision_pairs[i][1])
            /\ IsLive(world, collision_pairs[i][2])
            /\ Overlap(collision_pairs[i][1], collision_pairs[i][2])

\* a broad-phase candidate that fails the exact test was left out while
\* another pair was recorded
C4_Witness ==
    /\ PositionsAsDetected
    /\ Position("physics") < Position("octree") /\ Position("octree") < Position("detect")
    /\ collision_pairs # <<>>
    /\ \E a, b \in Entities(world) :
          /\ a # b
          /\ b \in Range(query_sphere(octree, world[a].position, SearchRadius(world[a])))
          /\ ~Overlap(a, b)
          /\ ~Recorded(a, b)

\* C5: no object is consumed by two pairs of one step: the despawn commands
\* queued by the Generator name no entity twice
C5_NoObjectConsumedTwice ==
    \A i, j \in DespawnIndexes(commands) :
        i # j => commands[i].entity # commands[j].entity

RECURSIVE ExpectedSpawns(_, _)
\* the sum of the fragment counts of the pairs whose participants are live
ExpectedSpawns(w, pairs) ==
    IF pairs = <<>> THEN 0
    ELSE (IF PairProcessed(w, Head(pairs))
          THEN DebrisPieces(w[Head(pairs)[1]], w[Head(pairs)[2]]) ELSE 0)
         + ExpectedSpawns(w, Tail(pairs))

LivePairs(w, pairs) == {i \in 1..Len(pairs) : PairProcessed(w, pairs[i])}

\* C6: a run of the Generator queues exactly N fragments for every recorded
\* pair whose participants are both live and the removal of both, and once
\* the step's commands are applied neither participant is in the population
C6_FragmentsAddedParentsRemoved ==
    [][ /\ (~HasRun("debris") /\ HasRun("debris")') =>
              /\ SpawnCount(commands') - SpawnCount(commands)
                    = ExpectedSpawns(world, collision_pairs)
              /\ \A i \in LivePairs(world, collision_pairs) : \A k \in 1..2 :
                    \E c \in DespawnIndexes(commands') :
                        commands'[c].entity = collision_pairs[i][k]
        /\ (frame' = frame + 1) =>
              /\ \A c \in DespawnIndexes(commands) : ~IsLive(world', commands[c].entity)
              /\ Cardinality(Entities(world') \ Entities(world)) = SpawnCount(commands)
      ]_vars

\* a step in which a collision was processed has ended
C6_Witness ==
    /\ frame >= 1
    /\ ran = <<>>
    /\ \E e \in Entities(world) : world[e].is_debris
    /\ \E e \in 1..(next_entity - 1) : ~IsLive(world, e)

\* C7: for positive total mass and non-negative energy the fragment count
\* is at least 2 and at most 50
C7_DebrisCountBounds ==
    (count_out # 0 /\ RPositive(count_in.mass) /\ count_in.energy.n >= 0) =>
        (count_out >= 2 /\ count_out <= 50)

\* both ends of the clamp are reached by inputs whose unclamped sum is
\* outside the interval: here the upper one
C7_Witness ==
    /\ count_out = 50
    /\ RPositive(count_in.mass)
    /\ count_in.mass.e <= 6
    /\ FloorSqrtDiv(count_in.mass, 3) > 50

ParentsOf(cmds, i) ==
    LET j == CHOOSE d \in DespawnIndexes(cmds) :
                 d > i /\ \A d2 \in DespawnIndexes(cmds) : d2 > i => d <= d2
    IN  <<cmds[j].entity, cmds[j + 1].entity>>

\* C9: every spawned fragment has generation max(parents' generations) + 1
C9_GenerationIsParentsPlusOne ==
    \A i \in SpawnIndexes(commands) :
        LET parents == ParentsOf(commands, i)
        IN  (IsLive(world, parents[1]) /\ IsLive(world, parents[2])) =>
              commands[i].obj.debris.generation
                = Max(GenerationOf(world[parents[1]]), GenerationOf(world[parents[2]])) + 1

QueryCenters == { <<1, 1, 1>>, <<0, 0, 0>>, <<33, 1, 1>>, <<66, 0, 0>> }

QueryRadii == {0, 2, 32}

\* the points a build has inserted: insert succeeded for them
Inserted == {e \in Entities(world) : contains_point(octree, world[e].position)}

InSphere(e, center, radius) == WithinDistance(world[e].position, center, radius)

\* C10: query_sphere returns every inserted point within the sphere, and
\* its result filtered by exact distance is the brute-force set
C10_QuerySphereComplete ==
    \A center \in QueryCenters : \A radius \in QueryRadii :
        \A results \in {Range(query_sphere(octree, center, radius))} :
            /\ \A e \in Inserted : InSphere(e, center, radius) => e \in results
            /\ {e \in results : IsLive(world, e) /\ InSphere(e, center, radius)}
                 = {e \in Inserted : InSphere(e, center, radius)}

\* a subdivided tree with points below the root, and a query that prunes
\* some nodes and returns others
C10_Witness ==
    /\ HasChildren(octree)
    /\ \E i, j \in 1..8 : /\ HasChildren(octree.children[i])
                          /\ octree.children[i].children[j].objects # <<>>
    /\ \E center \in QueryCenters : \E radius \in QueryRadii :
          \E results \in {Range(query_sphere(octree, center, radius))} :
              /\ results # {}
              /\ \E e \in Inserted : e \notin results
              /\ \E e \in results : ~InSphere(e, center, radius)

\* C11: the index is the tree obtained by inserting the current objects, in
\* the same order, into a fresh unsubdivided root: nothing of an earlier
\* build is left in it
C11_RebuildEqualsFreshBuild ==
    octree = InsertAll(NewOctree, world, SortedSeq(Entities(world)))

\* position and velocity of every object are the same before and after
\* the step
SameOrbitalState(e) ==
    /\ world'[e].position = world[e].position
    /\ world'[e].velocity = world[e].velocity

\* C12: while the clock is paused, no step of the Integrator or of the
\* time controls changes the position or the velocity of any object
C12_PausedLeavesStateUnchanged ==
    [][ sim_time.paused =>
            /\ Entities(world') = Entities(world)
            /\ \A e \in Entities(world) : SameOrbitalState(e) ]_vars

\* the Integrator has run in a frame whose clock was paused before it ran,
\* on an object that an unpaused step would have moved
C12_Witness ==
    /\ sim_time.paused
    /\ HasRun("physics")
    /\ Position("time") > 0
    /\ Position("time") < Position("physics")
    /\ \E e \in Entities(world) : Integrate(world[e]) # world[e]

RECURSIVE CeilDivPow10(_, _)
\* ceiling(n / 10^k) for n >= 0
CeilDivPow10(n, k) == IF k = 0 \/ n = 0 THEN n ELSE CeilDivPow10((n + 9) \div 10, k - 1)

\* a <= b for two non-negative real quantities
RLeq(a, b) ==
    IF a.e >= b.e THEN a.n * b.d <= DivPow10(b.n * a.d, a.e - b.e)
    ELSE CeilDivPow10(a.n * b.d, b.e - a.e) <= b.n * a.d

\* total_mass / 1000 >= 2500: the mass term alone reaches the upper clamp
MassTermReaches50(mass) == mass.n >= CeilDivPow10(2500000 * mass.d, mass.e)

\* clamp(floor(sqrt(total_mass / 1000)) + min(floor(sqrt(energy / 1e12)), 10), 2, 50)
FragmentCountFormula(energy, mass) ==
    IF MassTermReaches50(mass) THEN 50
    ELSE Clamp(FloorSqrtDiv(mass, 3) + Min(FloorSqrtDiv(energy, 12), 10), 2, 50)

CollisionOf(cmds, i) ==
    CHOOSE d \in DespawnIndexes(cmds) :
        d > i /\ \A d2 \in DespawnIndexes(cmds) : d2 > i => d <= d2

\* C14: the fragments of one collision carry the same parent_collision id
\* and the fragments of two different collisions carry different ids
C14_FragmentsShareCollisionId ==
    /\ \A i, j \in SpawnIndexes(commands) :
          (CollisionOf(commands, i) = CollisionOf(commands, j))
            <=> (commands[i].obj.debris.parent_collision
                   = commands[j].obj.debris.parent_collision)
    /\ \A i \in SpawnIndexes(commands) : \A e \in Entities(world) :
          world[e].is_debris =>
              world[e].debris.parent_collision # commands[i].obj.debris.parent_collision

\* the collisions in a command queue, each named by the index of the removal
\* of its first parent
Collisions(cmds) == {d \in DespawnIndexes(cmds) : d > 1 /\ cmds[d - 1].op = "spawn"}

FragmentsOf(cmds, d) == {i \in SpawnIndexes(cmds) : CollisionOf(cmds, i) = d}

RECURSIVE MassOfAll(_, _)
\* the sum of the masses of the entities es of w
MassOfAll(w, es) ==
    IF es = {} THEN Real(0, 1, 0)
    ELSE LET e == CHOOSE x \in es : TRUE
         IN  RAdd(w[e].mass, MassOfAll(w, es \ {e}))

\* total mass of the population once the first k queued commands are applied
PopulationMassAfter(k) ==
    LET w == ApplyCommands(world, next_entity, SubSeq(commands, 1, k)).w
    IN  MassOfAll(w, DOMAIN w)

\* C15: for every processed collision with N fragments each fragment has a
\* tenth of total_mass / N, the fragments together have a tenth of the
\* parents' combined mass, and the collision leaves the population with
\* strictly less total mass than it had before it
C15_FragmentMassIsTenthShare ==
    \A d \in Collisions(commands) :
        LET fragments == FragmentsOf(commands, d)
            N == Cardinality(fragments)
            total_mass == RAdd(world[commands[d].entity].mass,
                               world[commands[d + 1].entity].mass)
            sum == MassOfAll([i \in fragments |-> commands[i].obj], fragments)
        IN  /\ \A i \in fragments :
                  commands[i].obj.mass = Real(total_mass.n, total_mass.d * N * 10, total_mass.e)
            /\ sum = Real(total_mass.n, total_mass.d * 10, total_mass.e)
            /\ ~RLeq(PopulationMassAfter(d - 1 - N), PopulationMassAfter(d + 1))

RECURSIVE SubdividedOnlyWhenFull(_)
\* every node with children is below max_depth and stores at least the
\* capacity threshold of objects itself
SubdividedOnlyWhenFull(node) ==
    HasChildren(node) =>
        /\ node.depth < node.max_depth
        /\ Len(node.objects) >= MAX_OBJECTS_PER_NODE
        /\ \A i \in 1..8 : SubdividedOnlyWhenFull(node.children[i])

RECURSIVE StaysSubdivided(_, _)
\* every node of `before` that has children still has them in `after`
StaysSubdivided(before, after) ==
    HasChildren(before) =>
        /\ HasChildren(after)
        /\ \A i \in 1..8 : StaysSubdivided(before.children[i], after.children[i])

\* C16: in the index a node has children only if it is below max_depth and
\* itself stores at least 4 of the build's objects, and no step of a build
\* removes the children of a node
C16_SubdividedOnlyWhenFull ==
    /\ [](SubdividedOnlyWhenFull(octree))
    /\ [][StaysSubdivided(octree, octree')]_vars

RECURSIVE DepthsBounded(_)
\* no node is deeper than max_depth, every child is one level below its
\* parent with half its half_size, and a node at max_depth has no children
DepthsBounded(node) ==
    /\ node.depth <= node.max_depth
    /\ HasChildren(node) =>
          /\ node.depth < node.max_depth
          /\ \A i \in 1..8 :
                /\ node.children[i].depth = node.depth + 1
                /\ 2 * node.children[i].half_size = node.half_size
                /\ node.children[i].max_depth = node.max_depth
                /\ DepthsBounded(node.children[i])

\* C17: after any sequence of inserts and rebuilds the root has depth 0 and
\* max_depth 6, no node is deeper than max_depth, every child is one level
\* deeper than its parent with half its half_size, and a node at max_depth
\* has no children however many objects it holds
C17_DepthBounded ==
    /\ octree.depth = 0
    /\ octree.max_depth = MaxDepth
    /\ DepthsBounded(octree)

RECURSIVE SomeNodeAtMaxDepthOverCapacity(_)
\* some node at max_depth holds more than the capacity threshold
SomeNodeAtMaxDepthOverCapacity(node) ==
    \/ node.depth = node.max_depth /\ Len(node.objects) > MAX_OBJECTS_PER_NODE
    \/ /\ HasChildren(node)
       /\ \E i \in 1..8 : SomeNodeAtMaxDepthOverCapacity(node.children[i])

\* a node at max_depth holds five objects and has not subdivided
C17_Witness == SomeNodeAtMaxDepthOverCapacity(octree)

RECURSIVE Occurrences(_, _)
\* the number of times entity e is stored in the nodes of the tree
Occurrences(node, e) ==
    Cardinality({k \in 1..Len(node.objects) : node.objects[k] = e})
      + (IF HasChildren(node)
         THEN LET counts == [i \in 1..8 |-> Occurrences(node.children[i], e)]
              IN  counts[1] + counts[2] + counts[3] + counts[4]
                    + counts[5] + counts[6] + counts[7] + counts[8]
         ELSE 0)

RECURSIVE StoredWhereContained(_, _)
\* every entity stored in a node lies in the cube of that node
StoredWhereContained(node, w) ==
    /\ \A k \in 1..Len(node.objects) : contains_point(node, w[node.objects[k]].position)
    /\ HasChildren(node) => \A i \in 1..8 : StoredWhereContained(node.children[i], w)

NoDuplicates(seq) == \A i, j \in 1..Len(seq) : i # j => seq[i] # seq[j]

InsideRoot(w) == {e \in Entities(w) : contains_point(NewOctree, w[e].position)}

\* the index after a rebuild of population w
RebuiltIndexSound(t, w) ==
    /\ \A e \in InsideRoot(w) : Occurrences(t, e) = 1
    /\ \A e \in Entities(w) \ InsideRoot(w) : Occurrences(t, e) = 0
    /\ StoredWhereContained(t, w)
    /\ \A center \in {<<0, 0, 0>>, <<33, 1, 1>>} : \A radius \in {0, 2, 128} :
          NoDuplicates(query_sphere(t, center, radius))

\* C18: after a rebuild every object inside the root cube is stored in
\* exactly one node, whose cube contains its position, and no query returns
\* an object twice; an object outside the root cube is stored in no node
\* and the tree is the one built from the other objects alone
C18_StoredExactlyOnce ==
    /\ [](RebuiltIndexSound(octree, world))
    /\ [][octree' = InsertAll(clear(octree), world', SortedSeq(InsideRoot(world')))]_vars

\* a rebuild of a population with an object outside the root cube, an
\* object on the corner shared by the children and an object below the
\* root, into a tree subdivided by earlier frames
C18_Witness ==
    /\ frame >= 2
    /\ HasChildren(octree)
    /\ \E e \in Entities(world) : ~contains_point(octree, world[e].position)
    /\ \E e \in Entities(world) :
          /\ contains_point(octree, world[e].position)
          /\ \A k \in 1..Len(octree.objects) : octree.objects[k] # e

\* the Detector has run in this frame and neither the index nor the
\* positions have changed since
AsDetected ==
    /\ HasRun("detect")
    /\ Position("physics") < Position("detect")
    /\ Position("octree") < Position("detect")

\* the candidates the index returns for a live object
Candidates(a) == Range(query_sphere(octree, world[a].position, SearchRadius(world[a])))

\* the index returns a candidate for a that is no longer alive
StaleCandidate(a) == \E b \in Candidates(a) : ~IsLive(world, b)

\* C19: a candidate of the index that is no longer a live object gives no
\* recorded pair, and the Detector still resolves the other candidates:
\* every live candidate that passes the exact test is recorded
C19_StaleCandidateSkipped ==
    AsDetected =>
        /\ \A i \in 1..Len(collision_pairs) :
              /\ IsLive(world, collision_pairs[i][1])
              /\ IsLive(world, collision_pairs[i][2])
        /\ \A a \in Entities(world) : \A b \in Candidates(a) :
              (b # a /\ IsLive(world, b) /\ Overlap(a, b)) => Recorded(a, b)

\* the Detector has met a removed candidate and, for the same object, a
\* live candidate that it recorded
C19_Witness ==
    /\ AsDetected
    /\ \E a \in Entities(world) :
          /\ StaleCandidate(a)
          /\ \E b \in Candidates(a) : b # a /\ IsLive(world, b) /\ Recorded(a, b)

AtOrigin(o) == o.position = <<0, 0, 0>>

\* the Integrator runs its loop in this step
IntegratorStep == ~HasRun("physics") /\ HasRun("physics")' /\ ~sim_time.paused

\* the object has been advanced: its position moved by its new velocity,
\* and its velocity changed, if at all, towards the origin on every axis
Advanced(before, after) ==
    /\ after.position = [a \in 1..3 |-> before.position[a] + after.velocity[a] * TimeStep]
    /\ \A a \in 1..3 : (after.velocity[a] - before.velocity[a]) * before.position[a] <= 0

\* C20: a step of the Integrator leaves an object whose position is exactly
\* the origin as it was, position and velocity, and advances every other
\* object
C20_OriginObjectSkipped ==
    [][ IntegratorStep =>
            \A e \in Entities(world) :
                IF AtOrigin(world[e]) THEN world'[e] = world[e]
                ELSE Advanced(world[e], world'[e]) ]_vars

\* the Integrator has run, unpaused, on an object that an earlier step had
\* brought to the origin with a velocity, next to an object elsewhere
C20_Witness ==
    /\ frame >= 1
    /\ HasRun("physics")
    /\ ~sim_time.paused
    /\ Position("time") < Position("physics")
    /\ \E e \in Entities(world) : AtOrigin(world[e]) /\ world[e].velocity = <<-4, 0, 0>>
    /\ \E e \in Entities(world) : ~AtOrigin(world[e]) /\ world[e].velocity # <<0, 0, 0>>

\* a * dt of the two-body force at position p: along -p on every axis,
\* of magnitude GM / |p|^2
GravityKick(p) ==
    LET r2 == LengthSquared(p)
    IN  [a \in 1..3 |-> TruncDiv(-(GM * p[a]) * TimeStep, r2 * ISqrt(r2))]

TowardOrigin(p, kick) == \A a \in 1..3 : kick[a] * p[a] <= 0

\* C21: for every object away from the origin a step of the Integrator
\* sets v' = v + a*dt, with a directed toward the origin, and then
\* p' = p + v'*dt: the position moves by the new velocity, and wherever the
\* velocity changed it is not the position the old velocity would give
C21_VelocityFirst ==
    [][ IntegratorStep =>
            \A e \in Entities(world) :
                ~AtOrigin(world[e]) =>
                    LET p == world[e].position
                        v == world[e].velocity
                    IN  /\ TowardOrigin(p, GravityKick(p))
                        /\ world'[e].velocity = VAdd(v, GravityKick(p))
                        /\ world'[e].position =
                              [a \in 1..3 |-> p[a] + world'[e].velocity[a] * TimeStep]
                        /\ world'[e].velocity # v =>
                              world'[e].position #
                                  [a \in 1..3 |-> p[a] + v[a] * TimeStep] ]_vars

\* the Integrator has advanced the object that started at (4,0,0) with
\* velocity (0,2,0): gravity turned the velocity to (-1,2,0) and the
\* position is (3,2,0), where the old velocity would have given (4,2,0)
C21_Witness ==
    /\ frame = 0
    /\ HasRun("physics")
    /\ \E e \in Entities(world) :
          /\ world[e].velocity = <<-1, 2, 0>>
          /\ world[e].position = <<3, 2, 0>>

\* the orders in which the objects of a set can be taken
Orders(S) ==
    {order \in [1..Cardinality(S) -> S] : \A e \in S : \E i \in DOMAIN order : order[i] = e}

QueryOrder(w) == SortedSeq(Entities(w))

\* C22: the result of the Integrator's loop is the same for every order in
\* which the per-object updates are applied; replacing the state of one
\* object changes the result of no other object; and two objects with the
\* same position and velocity get the same new position and velocity
C22_UpdatesIndependent ==
    LET after == physics_loop(world, QueryOrder(world))
    IN  /\ \A order \in Orders(Entities(world)) : physics_loop(world, order) = after
        /\ \A e \in Entities(world) : \A o \in PhysObjects :
              LET changed == physics_loop([world EXCEPT ![e] = o], QueryOrder(world))
              IN  \A f \in Entities(world) \ {e} : changed[f] = after[f]
        /\ \A e, f \in Entities(world) :
              (/\ world[e].position = world[f].position
               /\ world[e].velocity = world[f].velocity)
                  => /\ after[e].position = after[f].position
                     /\ after[e].velocity = after[f].velocity

\* the Integrator has run on two objects in different states, and its loop
\* would change both of them again
C22_Witness ==
    /\ HasRun("physics")
    /\ ~sim_time.paused
    /\ \E e, f \in Entities(world) :
          /\ e # f
          /\ world[e].position # world[f].position
          /\ Integrate(world[e]) # world[e]
          /\ Integrate(world[f]) # world[f]

\* the number of live stress-test objects
LiveStressObjects(w) == Cardinality(StressTestObjects(w))

\* stress_test_spawn_system runs in this step
StressSpawnStep == ~HasRun("stress_spawn") /\ HasRun("stress_spawn")'

\* C28: a run of the spawn system that leaves the stress test enabled
\* queues exactly min(target_objects - current_objects, spawn_rate) spawns
\* when current_objects, the number of live stress-test objects, is below
\* target_objects, and none otherwise; a run that leaves it disabled queues
\* none; and no step that raises the number of live stress-test objects
\* raises it above target_objects
C28_SpawnsUpToTarget ==
    [][ /\ StressSpawnStep =>
              LET spawned == SpawnCount(commands') - SpawnCount(commands)
                  live == LiveStressObjects(world)
                  target == stress_config'.target_objects
              IN  IF stress_config'.enabled
                  THEN /\ stress_config'.current_objects = live
                       /\ spawned = IF live < target
                                    THEN Min(target - live, stress_config'.spawn_rate)
                                    ELSE 0
                       /\ live + spawned <= Max(live, target)
                  ELSE spawned = 0
        /\ LiveStressObjects(world') > LiveStressObjects(world) =>
              LiveStressObjects(world') <= stress_config.target_objects ]_vars

\* the spawn system has run, enabled, one object short of its target, and
\* has queued one spawn where the rate allows two
C28_Witness ==
    /\ ran = <<"stress_spawn">>
    /\ stress_config.enabled
    /\ stress_config.spawn_rate = SpawnRate
    /\ stress_config.target_objects - stress_config.current_objects = 1
    /\ LiveStressObjects(world) = stress_config.current_objects
    /\ SpawnCount(commands) = 1

\* the commands of a frame are applied in this step
FrameEnds == frame' = frame + 1

\* C27: when the frame in which the cleanup key C was pressed has ended,
\* the stress test is disabled and no stress-test object is live, in
\* whichever order the spawn and the cleanup system ran in that frame
C27_CleanupLeavesNoStressObject ==
    [][ (FrameEnds /\ "KeyC" \in keyboard) =>
            /\ ~stress_config'.enabled
            /\ StressTestObjects(world') = {} ]_vars

\* the Generator has queued its commands in this frame
GeneratorRan == HasRun("debris")

\* C23: the set of live objects changes only in a frame in which the
\* Generator has run, and the position and velocity of an object change
\* only in a step of the Integrator; no other system adds or removes an
\* object or changes an OrbitalState
C23_OnlyGeneratorAndIntegratorMutate ==
    [][ /\ ~GeneratorRan => Entities(world') = Entities(world)
        /\ ~IntegratorStep =>
              \A e \in Entities(world) \cap Entities(world') : SameOrbitalState(e) ]_vars

\* the fetch of this frame's fetch task has failed and the fallback has run
FetchFailed ==
    /\ HasRun("fetch")
    /\ tle_cache.records # <<>>
    /\ tle_cache.last_updated = 0

\* C26: when the live fetch has failed, the cache holds the 100 records of
\* the test dataset, and after that frame one satellite entity is live for
\* each of them: the simulation has 100 satellites
C26_FallbackSpawnsTestSatellites ==
    /\ FetchFailed =>
          /\ Len(tle_cache.records) = 100
          /\ SpawnCount(commands) = 100
    /\ (tle_cache.records # <<>> /\ tle_cache.last_updated = 0 /\ ran = <<>>) =>
          Cardinality(Satellites(world)) = 100

\* a run of the Generator from the current state, thread_rng drawing from
\* the stream of the given seed
GeneratorRun(seed) ==
    Generate(world, collision_pairs,
             [cmds |-> <<>>, count |-> debris_count, draws |-> 0, seed |-> seed])

\* C24: two runs of the Generator from the same population and the same
\* recorded pairs produce the same fragments with the same velocities.  The
\* seed would have to be an input of the run; debris_generation_system
\* takes none, so the runs are equal in everything the program is given
\* and differ only in the stream thread_rng draws from
C24_GeneratorDeterministic ==
    \A seed1, seed2 \in Seeds : GeneratorRun(seed1).cmds = GeneratorRun(seed2).cmds

\* C25: no step produces a live object whose position is exactly the
\* origin: an object is at (0,0,0) after a step of the Integrator, or after
\* the Generator's fragments are spawned at the midpoint of their parents,
\* only if it was there before the step
C25_NoObjectReachesOrigin ==
    [][ \A e \in Entities(world') :
            AtOrigin(world'[e]) => (e \in Entities(world) /\ AtOrigin(world[e])) ]_vars

====
